---- MODULE Spec2Model ----
(***************************************************************************)
(* Model of the two command-line utilities of the repository:              *)
(*   - build_artifact_name.py      (artifact name from project/config/tag) *)
(*   - generate_cmake_flags_files.py (flag files from a JSON document)     *)
(*                                                                         *)
(* A Python string is a sequence of one-character strings, so that         *)
(* splitting, sanitizing and rendering are computed character by           *)
(* character.  A JSON value is a record [t, v]: t names the JSON type and  *)
(* v holds the payload (an object is a sequence of <<key, value>> pairs    *)
(* in insertion order, as a Python dict keeps them).                       *)
(***************************************************************************)
EXTENDS Integers, Sequences, FiniteSets, TLC

VARIABLES
    fn_args,        \* arguments of the pure function under check
    fn_ret,         \* its return value: [done |-> FALSE] before the call
    input,          \* the file named by --input: [kind, data]
    dry_run,        \* args.dry_run
    pc,             \* position of main(): start, mkdir, hw, sw, summary, exit
                    \* (idle when the generator is not the program run)
    exit_code,      \* process exit status (-1 while running)
    mkdir_calls,    \* number of os.makedirs calls made by this run
    hw_index,       \* enumerate index of the outer loop (zero-based)
    sw_index,       \* enumerate index of the inner loop (zero-based)
    hw_flags,       \* flag map of the current hardware entry
    hw_base,        \* filename base of the current hardware entry
    created_files,  \* the list created_files
    writes,         \* every open(out_path, 'w') made, with its outcome
    printed         \* every "[DRY RUN]" report printed

vars == <<fn_args, fn_ret, input, dry_run, pc, exit_code, mkdir_calls,
          hw_index, sw_index, hw_flags, hw_base, created_files, writes, printed>>

(***************************************************************************)
(* Bounds of the model.                                                    *)
(***************************************************************************)
MaxCfgLen == 5
MaxKeys == 2
MaxFlags == 2
MaxHw == 2
MaxSw == 2
MaxWriteFailures == 1

(***************************************************************************)
(* Characters and strings.                                                 *)
(***************************************************************************)
UpperCase == <<"A","B","C","D","E","F","G","H","I","J","K","L","M",
               "N","O","P","Q","R","S","T","U","V","W","X","Y","Z">>
LowerCase == <<"a","b","c","d","e","f","g","h","i","j","k","l","m",
               "n","o","p","q","r","s","t","u","v","w","x","y","z">>
Digits == <<"0","1","2","3","4","5","6","7","8","9">>

\* The characters of the model in code point order (what sorted() compares).
CodePointOrder == <<"\t", "\n", " ", "(", ")", "+", "-", ".">> \o Digits
                  \o <<"=">> \o UpperCase \o <<"[", "]", "_">> \o LowerCase
                  \o <<"{", "}">>

InSeq(c, s) == \E i \in 1..Len(s) : s[i] = c

\* the rank of every character in that order
CodePointRank ==
    [c \in {CodePointOrder[i] : i \in 1..Len(CodePointOrder)} |->
        CHOOSE i \in 1..Len(CodePointOrder) : CodePointOrder[i] = c]

Ord(c) == CodePointRank[c]

\* str.lower() on one character
LowerCaseOf ==
    [c \in {CodePointOrder[i] : i \in 1..Len(CodePointOrder)} |->
        IF InSeq(c, UpperCase)
        THEN LowerCase[CHOOSE i \in 1..Len(UpperCase) : UpperCase[i] = c]
        ELSE c]

LowerChar(c) == LowerCaseOf[c]

\* str.lower()
Lower(s) == [i \in 1..Len(s) |-> LowerChar(s[i])]

\* str.replace(a, b) for one-character a and b
ReplaceChar(s, a, b) == [i \in 1..Len(s) |-> IF s[i] = a THEN b ELSE s[i]]

IsSpace(c) == c \in {" ", "\t", "\n"}

RECURSIVE LStrip(_, _)
LStrip(s, chars) ==
    IF s # <<>> /\ Head(s) \in chars THEN LStrip(Tail(s), chars) ELSE s

RECURSIVE RStrip(_, _)
RStrip(s, chars) ==
    IF s # <<>> /\ s[Len(s)] \in chars
    THEN RStrip(SubSeq(s, 1, Len(s) - 1), chars)
    ELSE s

\* str.strip() (whitespace) and str.strip('-')
Strip(s) == RStrip(LStrip(s, {" ", "\t", "\n"}), {" ", "\t", "\n"})
StripHyphens(s) == RStrip(LStrip(s, {"-"}), {"-"})

\* sep.join(parts)
RECURSIVE Join(_, _)
Join(parts, sep) ==
    IF parts = <<>> THEN <<>>
    ELSE IF Len(parts) = 1 THEN parts[1]
    ELSE parts[1] \o sep \o Join(Tail(parts), sep)

\* s.split(sep) for a one-character sep: always at least one part
RECURSIVE Split(_, _)
Split(s, sep) ==
    IF \A i \in 1..Len(s) : s[i] # sep THEN <<s>>
    ELSE LET k == CHOOSE i \in 1..Len(s) :
                      s[i] = sep /\ \A j \in 1..(i - 1) : s[j] # sep
         IN  <<SubSeq(s, 1, k - 1)>> \o Split(SubSeq(s, k + 1, Len(s)), sep)

StartsWith(s, prefix) ==
    Len(s) >= Len(prefix) /\ SubSeq(s, 1, Len(prefix)) = prefix

\* str(n) for a natural number
RECURSIVE NatToStr(_)
NatToStr(n) ==
    IF n < 10 THEN <<Digits[n + 1]>>
    ELSE NatToStr(n \div 10) \o <<Digits[(n % 10) + 1]>>

\* lexicographic comparison of two strings by code point (str.__lt__)
RECURSIVE StrLess(_, _)
StrLess(a, b) ==
    IF b = <<>> THEN FALSE
    ELSE IF a = <<>> THEN TRUE
    ELSE IF Head(a) # Head(b) THEN Ord(Head(a)) < Ord(Head(b))
    ELSE StrLess(Tail(a), Tail(b))

\* all strings over an alphabet up to a length
RECURSIVE StringsUpTo(_, _)
StringsUpTo(alphabet, n) ==
    IF n = 0 THEN {<<>>}
    ELSE LET shorter == StringsUpTo(alphabet, n - 1)
         IN  shorter \cup {Append(s, c) : s \in shorter, c \in alphabet}

(***************************************************************************)
(* build_artifact_name.py                                                  *)
(***************************************************************************)
\* sanitize: "Replace dots with hyphens and lowercase the string."
sanitize(s) == IF s # <<>> THEN Lower(ReplaceChar(s, ".", "-")) ELSE <<>>

\* a scan that keeps the last matching part instead of the first
LastHwFrom(parts_s, i) ==
    IF \E k \in i..Len(parts_s) : StartsWith(parts_s[k], <<"h", "w">>)
    THEN CHOOSE k \in i..Len(parts_s) :
            /\ StartsWith(parts_s[k], <<"h", "w">>)
            /\ \A j \in (k + 1)..Len(parts_s) : ~StartsWith(parts_s[j], <<"h", "w">>)
    ELSE 0

RECURSIVE FirstHwFrom(_, _)
\* the loop "for i, p in enumerate(parts_s): if p.startswith('hw')", as the
\* one-based index of the part that returns, 0 when the loop falls through
FirstHwFrom(parts_s, i) ==
    IF i > Len(parts_s) THEN 0
    ELSE IF StartsWith(parts_s[i], <<"h", "w">>) THEN i
    ELSE FirstHwFrom(parts_s, i + 1)

build_artifact_name(project, configuration, tag) ==
    LET project_s == sanitize(project)
        tag_s == sanitize(tag)
        parts == IF configuration # <<>> THEN Split(configuration, "_") ELSE <<>>
        parts_s == [i \in 1..Len(parts) |-> sanitize(parts[i])]
        i == FirstHwFrom(parts_s, 1)
    IN  IF i > 0
        THEN LET new_parts == SubSeq(parts_s, 1, i) \o <<tag_s>>
                              \o SubSeq(parts_s, i + 1, Len(parts_s))
             IN  project_s \o <<"_">> \o Join(new_parts, <<"_">>)
        ELSE IF parts_s # <<>>
        THEN project_s \o <<"_">> \o tag_s \o <<"_">> \o Join(parts_s, <<"_">>)
        ELSE project_s \o <<"_">> \o tag_s

(***************************************************************************)
(* generate_cmake_flags_files.py: JSON values and the pure helpers.        *)
(***************************************************************************)
JNull == [t |-> "null", v |-> 0]
JBool(b) == [t |-> "bool", v |-> b]
JNum(n) == [t |-> "num", v |-> n]
JStr(s) == [t |-> "str", v |-> s]
JList(items) == [t |-> "list", v |-> items]
JObj(pairs) == [t |-> "obj", v |-> pairs]

\* Primitive = (str, int, float, bool, type(None))
IsPrimitive(x) == x.t \in {"str", "num", "bool", "null"}

\* isinstance(x, dict) and isinstance(x, list)
IsDict(x) == x.t = "obj"
IsList(x) == x.t = "list"

\* key in d, for a dict d
HasKey(d, k) == \E i \in 1..Len(d.v) : d.v[i][1] = k

\* d.get(k, default), for a dict d
DictGet(d, k, default) ==
    IF HasKey(d, k)
    THEN d.v[CHOOSE i \in 1..Len(d.v) : d.v[i][1] = k][2]
    ELSE default

\* the builtin str(x)
PyStr(x) ==
    CASE x.t = "str" -> x.v
      [] x.t = "num" -> NatToStr(x.v)
      [] x.t = "bool" -> IF x.v THEN <<"T", "r", "u", "e">>
                         ELSE <<"F", "a", "l", "s", "e">>
      [] x.t = "null" -> <<"N", "o", "n", "e">>
      [] x.t = "list" /\ x.v = <<>> -> <<"[", "]">>
      [] x.t = "obj" /\ x.v = <<>> -> <<"{", "}">>

\* re.sub(pattern+, '-', s): every maximal run of characters matching the
\* pattern becomes one hyphen
RECURSIVE SubRuns(_, _, _)
SubRuns(s, matching, inRun) ==
    IF s = <<>> THEN <<>>
    ELSE IF Head(s) \in matching
    THEN (IF inRun THEN <<>> ELSE <<"-">>) \o SubRuns(Tail(s), matching, TRUE)
    ELSE <<Head(s)>> \o SubRuns(Tail(s), matching, FALSE)

\* the characters matching [^a-z0-9-]
NotFilenameChars ==
    {CodePointOrder[i] : i \in 1..Len(CodePointOrder)}
        \ ({LowerCase[i] : i \in 1..Len(LowerCase)}
            \cup {Digits[i] : i \in 1..Len(Digits)} \cup {"-"})

sanitize_value_for_filename(x) ==
    IF x.t = "null" THEN <<"n", "o", "n", "e">>
    ELSE LET s_str == Lower(Strip(PyStr(x)))
         IN  IF s_str = <<>> THEN <<"e", "m", "p", "t", "y">>
             ELSE LET s1 == ReplaceChar(s_str, "_", "-")
                      s2 == SubRuns(s1, NotFilenameChars, FALSE)
                      s3 == SubRuns(s2, {"-"}, FALSE)
                      s4 == StripHyphens(s3)
                  IN  IF s4 # <<>> THEN s4 ELSE <<"e", "m", "p", "t", "y">>

stringify_primitive(x) ==
    IF x.t = "bool" THEN (IF x.v THEN <<"O", "N">> ELSE <<"O", "F", "F">>)
    ELSE IF x.t = "null" THEN <<>>
    ELSE PyStr(x)

\* sorted(keys): insertion of one key into a sorted list, then the sort
RECURSIVE InsertSorted(_, _)
InsertSorted(k, sorted) ==
    IF sorted = <<>> THEN <<k>>
    ELSE IF StrLess(k, Head(sorted)) THEN <<k>> \o sorted
    ELSE <<Head(sorted)>> \o InsertSorted(k, Tail(sorted))

RECURSIVE SortKeys(_)
SortKeys(keys) ==
    IF keys = <<>> THEN <<>>
    ELSE InsertSorted(Head(keys), SortKeys(Tail(keys)))

\* keys of a dict, or of a flag map, in iteration order
KeysOf(pairs) == [i \in 1..Len(pairs) |-> pairs[i][1]]

\* an OrderedDict is the sequence of its <<key, value>> items
collect_dict_flags(d) ==
    IF ~IsDict(d) THEN <<>>
    ELSE LET keys == SortKeys(KeysOf(d.v))
             kept == SelectSeq(keys, LAMBDA k : IsPrimitive(DictGet(d, k, JNull)))
         IN  [i \in 1..Len(kept) |->
                 <<kept[i], stringify_primitive(DictGet(d, kept[i], JNull))>>]

\* od[k] = v on an OrderedDict: a new key goes last, a known key keeps its place
OdSet(od, k, v) ==
    IF \E i \in 1..Len(od) : od[i][1] = k
    THEN [i \in 1..Len(od) |-> IF od[i][1] = k THEN <<k, v>> ELSE od[i]]
    ELSE Append(od, <<k, v>>)

RECURSIVE OdUpdate(_, _)
\* for k, v in items: od[k] = v
OdUpdate(od, items) ==
    IF items = <<>> THEN od
    ELSE OdUpdate(OdSet(od, Head(items)[1], Head(items)[2]), Tail(items))

\* a merge in which the hardware value wins
merge_hw_wins(hw, sw) == OdUpdate(OdUpdate(<<>>, sw), hw)

merge_flags(hw, sw) == OdUpdate(OdUpdate(<<>>, hw), sw)

\* \d+ from position i: the position after the run of digits
RECURSIVE SkipDigits(_, _)
SkipDigits(s, i) ==
    IF i <= Len(s) /\ InSeq(s[i], Digits) THEN SkipDigits(s, i + 1) ELSE i

\* [+-]? from position i
SkipSign(s, i) == IF i <= Len(s) /\ s[i] \in {"+", "-"} THEN i + 1 ELSE i

\* re.fullmatch(r'[+-]?\d+(\.\d+)?([eE][+-]?\d+)?', s)
is_numeric_string(s) ==
    IF s = <<>> THEN FALSE
    ELSE LET a == SkipSign(s, 1)
             b == SkipDigits(s, a)
             c == IF b <= Len(s) /\ s[b] = "." /\ SkipDigits(s, b + 1) > b + 1
                  THEN SkipDigits(s, b + 1) ELSE b
             e == SkipSign(s, c + 1)
             d == IF c <= Len(s) /\ s[c] \in {"e", "E"} /\ SkipDigits(s, e) > e
                  THEN SkipDigits(s, e) ELSE c
         IN  b > a /\ d = Len(s) + 1

\* a rendering that writes "=" after every key
flag_line_always_equals(k, v) == <<"-", "D">> \o k \o <<"=">> \o v

\* one line of flags_to_lines
FlagLine(k, v) ==
    IF v = <<>> THEN <<"-", "D">> \o k
    ELSE IF v \in {<<"O", "N">>, <<"O", "F", "F">>} \/ is_numeric_string(v)
    THEN <<"-", "D">> \o k \o <<"=">> \o v
    ELSE <<"-", "D">> \o k \o <<"=">> \o v

flags_to_lines(flags) == [i \in 1..Len(flags) |-> FlagLine(flags[i][1], flags[i][2])]

\* out_f.write("\n".join(lines) + "\n")
FileContent(lines) == Join(lines, <<"\n">>) \o <<"\n">>

\* a base that keeps every value of the flag map
hw_base_all_values(flags, index) ==
    LET vals == [i \in 1..Len(flags) |-> sanitize_value_for_filename(JStr(flags[i][2]))]
    IN  IF vals # <<>> THEN Join(vals, <<"_">>) ELSE <<"h", "w">> \o NatToStr(index)

hw_filename_base_from_hw_flags(flags, index) ==
    LET usable == SelectSeq(flags, LAMBDA p : Strip(p[2]) # <<>>)
        vals == [i \in 1..Len(usable) |-> sanitize_value_for_filename(JStr(usable[i][2]))]
    IN  IF vals # <<>> THEN Join(vals, <<"_">>) ELSE <<"h", "w">> \o NatToStr(index)

(***************************************************************************)
(* generate_cmake_flags_files.py: main().                                  *)
(***************************************************************************)
K_hw_configuration_list == <<"h", "w", "_", "c", "o", "n", "f", "i", "g", "u", "r", "a", "t", "i", "o", "n", "_", "l", "i", "s", "t">>
K_sw_configuration_list == <<"s", "w", "_", "c", "o", "n", "f", "i", "g", "u", "r", "a", "t", "i", "o", "n", "_", "l", "i", "s", "t">>
K_hw_flags == <<"h", "w", "_", "f", "l", "a", "g", "s">>
K_sw_flags == <<"s", "w", "_", "f", "l", "a", "g", "s">>
K_name == <<"n", "a", "m", "e">>
fixed_ext == <<".", "t", "x", "t">>

\* data.get('hw_configuration_list') of a validated document
HwList == DictGet(input.data, K_hw_configuration_list, JNull).v

\* x.get(key, {}) if isinstance(x.get(key, {}), dict) else {}
FlagsRaw(x, key) ==
    IF IsDict(DictGet(x, key, JObj(<<>>))) THEN DictGet(x, key, JObj(<<>>)) ELSE JObj(<<>>)

\* a test that takes the inner loop for an empty list too
has_sw_list_any_list(hw) == IsList(DictGet(hw, K_sw_configuration_list, JNull))

\* "if sw_list and isinstance(sw_list, list)"
HasSwList(hw) ==
    LET sw_list == DictGet(hw, K_sw_configuration_list, JNull)
    IN  IsList(sw_list) /\ sw_list.v # <<>>

SwList(hw) == DictGet(hw, K_sw_configuration_list, JNull).v

\* "sw_name_raw is not None and str(sw_name_raw).strip() != ''"
HasName(sw_name_raw) == sw_name_raw.t # "null" /\ Strip(PyStr(sw_name_raw)) # <<>>

\* a naming that gives the bare base to the first entry without a name,
\* wherever it stands in the list
sw_filename_first_unnamed(base, sw_list, index) ==
    LET sw_name_raw == DictGet(sw_list[index + 1], K_name, JNull)
        unnamed_before ==
            \E j \in 1..index :
                IsDict(sw_list[j]) /\ ~HasName(DictGet(sw_list[j], K_name, JNull))
    IN  IF HasName(sw_name_raw)
        THEN base \o <<"_">> \o sanitize_value_for_filename(sw_name_raw) \o fixed_ext
        ELSE IF ~unnamed_before THEN base \o fixed_ext
        ELSE base \o <<"_", "s", "w", "-", "c", "o", "n", "f">> \o NatToStr(index) \o fixed_ext

\* the filename of the software entry at (zero-based) index of sw_list
sw_filename(base, sw_list, index) ==
    LET sw_name_raw == DictGet(sw_list[index + 1], K_name, JNull)
    IN  IF HasName(sw_name_raw)
        THEN base \o <<"_">> \o sanitize_value_for_filename(sw_name_raw) \o fixed_ext
        ELSE IF index = 0 THEN base \o fixed_ext
        ELSE base \o <<"_", "s", "w", "-", "c", "o", "n", "f">> \o NatToStr(index) \o fixed_ext

\* a handler that lets the failure end the loops
abort_on_write_error(ok, next_pc) == IF ok THEN next_pc ELSE "summary"

\* "except OSError as e: print(...)": the loop goes on
after_write(ok, next_pc) == next_pc

\* created_files.append(out_path), reached only when the write succeeded
record_created(ok, files, path) == IF ok THEN Append(files, path) ELSE files

\* a dry run that reports the hardware flags alone
dry_run_lines_hw_only(flags, merged) == flags_to_lines(flags)

\* the lines a dry run reports for a software entry
dry_run_lines(flags, merged) == flags_to_lines(merged)

NumFailed == Cardinality({i \in 1..Len(writes) : ~writes[i].ok})

\* print the report (dry run) or write the file; hw and sw are the loop
\* indexes that produced the artifact (sw = -1 outside the inner loop)
Emit(path, report_lines, file_lines, hw, sw, next_pc) ==
    IF dry_run
    THEN /\ printed' = Append(printed, [path |-> path, lines |-> report_lines,
                                        hw |-> hw, sw |-> sw])
         /\ pc' = next_pc
         /\ UNCHANGED <<writes, created_files>>
    ELSE \E ok \in BOOLEAN :
            /\ ok \/ NumFailed < MaxWriteFailures
            /\ writes' = Append(writes, [path |-> path, lines |-> file_lines,
                                         ok |-> ok, hw |-> hw, sw |-> sw])
            /\ created_files' = record_created(ok, created_files, path)
            /\ pc' = after_write(ok, next_pc)
            /\ UNCHANGED printed

\* "Read input JSON" and the check of the top-level list
ReadInput ==
    /\ pc = "start"
    /\ \/ /\ input.kind = "missing"             \* FileNotFoundError
          /\ pc' = "exit" /\ exit_code' = 2
       \/ /\ input.kind = "unreadable"          \* any other OSError: not caught
          /\ pc' = "exit" /\ exit_code' = 1
       \/ /\ input.kind = "malformed"           \* json.JSONDecodeError
          /\ pc' = "exit" /\ exit_code' = 2
       \/ /\ input.kind = "json"
          /\ ~IsDict(input.data)                \* data.get: AttributeError, not caught
          /\ pc' = "exit" /\ exit_code' = 1
       \/ /\ input.kind = "json"
          /\ IsDict(input.data)
          /\ ~IsList(DictGet(input.data, K_hw_configuration_list, JNull))
          /\ pc' = "exit" /\ exit_code' = 2
       \/ /\ input.kind = "json"
          /\ IsDict(input.data)
          /\ IsList(DictGet(input.data, K_hw_configuration_list, JNull))
          /\ pc' = "mkdir" /\ exit_code' = exit_code
    /\ UNCHANGED <<fn_args, fn_ret, input, dry_run, mkdir_calls, hw_index, sw_index,
                   hw_flags, hw_base, created_files, writes, printed>>

\* a run that creates no directory when it is a dry run
makedirs_unless_dry_run(calls) == IF dry_run THEN calls ELSE calls + 1

\* os.makedirs(args.outdir, exist_ok=True) is called in every mode
makedirs_called(calls) == calls + 1

\* "Try to create the output directory."
MakeOutdir ==
    /\ pc = "mkdir"
    /\ mkdir_calls' = makedirs_called(mkdir_calls)
    /\ \/ /\ pc' = "hw" /\ exit_code' = exit_code      \* created, or existed
       \/ /\ pc' = "exit" /\ exit_code' = 3            \* OSError
    /\ UNCHANGED <<fn_args, fn_ret, input, dry_run, hw_index, sw_index,
                   hw_flags, hw_base, created_files, writes, printed>>

\* one pass of "for hw_index, hw in enumerate(hw_list)", up to the inner loop
HwIteration ==
    /\ pc = "hw"
    /\ IF hw_index >= Len(HwList)
       THEN /\ pc' = "summary"
            /\ UNCHANGED <<hw_index, sw_index, hw_flags, hw_base,
                           created_files, writes, printed>>
       ELSE LET hw == HwList[hw_index + 1]
            IN  IF ~IsDict(hw)
                THEN /\ hw_index' = hw_index + 1
                     /\ UNCHANGED <<pc, sw_index, hw_flags, hw_base,
                                    created_files, writes, printed>>
                ELSE LET flags == collect_dict_flags(FlagsRaw(hw, K_hw_flags))
                         base == hw_filename_base_from_hw_flags(flags, hw_index)
                     IN  /\ hw_flags' = flags
                         /\ hw_base' = base
                         /\ IF HasSwList(hw)
                            THEN /\ pc' = "sw"
                                 /\ sw_index' = 0
                                 /\ UNCHANGED <<hw_index, created_files, writes, printed>>
                            ELSE /\ Emit(base \o fixed_ext, flags_to_lines(flags),
                                         flags_to_lines(flags), hw_index, -1, "hw")
                                 /\ hw_index' = hw_index + 1
                                 /\ UNCHANGED sw_index
    /\ UNCHANGED <<fn_args, fn_ret, input, dry_run, exit_code, mkdir_calls>>

\* one pass of "for sw_index, sw in enumerate(sw_list)"
SwIteration ==
    /\ pc = "sw"
    /\ LET sw_list == SwList(HwList[hw_index + 1])
       IN  IF sw_index >= Len(sw_list)
           THEN /\ pc' = "hw"
                /\ hw_index' = hw_index + 1
                /\ UNCHANGED <<sw_index, created_files, writes, printed>>
           ELSE LET sw == sw_list[sw_index + 1]
                IN  IF ~IsDict(sw)
                    THEN /\ sw_index' = sw_index + 1
                         /\ UNCHANGED <<pc, hw_index, created_files, writes, printed>>
                    ELSE LET sw_flags == collect_dict_flags(FlagsRaw(sw, K_sw_flags))
                             merged == merge_flags(hw_flags, sw_flags)
                         IN  /\ Emit(sw_filename(hw_base, sw_list, sw_index),
                                     dry_run_lines(hw_flags, merged),
                                     flags_to_lines(merged), hw_index, sw_index, "sw")
                             /\ sw_index' = sw_index + 1
                             /\ UNCHANGED hw_index
    /\ UNCHANGED <<fn_args, fn_ret, input, dry_run, exit_code, mkdir_calls,
                   hw_flags, hw_base>>

\* the closing report; the process ends with status 0
Summary ==
    /\ pc = "summary"
    /\ pc' = "exit"
    /\ exit_code' = 0
    /\ UNCHANGED <<fn_args, fn_ret, input, dry_run, mkdir_calls, hw_index, sw_index,
                   hw_flags, hw_base, created_files, writes, printed>>

(***************************************************************************)
(* The input documents of the model.                                       *)
(***************************************************************************)
\* software entries: named, unnamed, not an object, blank name
SwSample(k) ==
    CASE k = 1 -> JObj(<< <<K_name, JStr(<<"D", "b", "g", ".", "1">>)>>,
                          <<K_sw_flags, JObj(<< <<<<"V">>, JNum(3)>>,
                                                <<<<"A">>, JStr(<<"x">>)>> >>)>> >>)
      [] k = 2 -> JObj(<< <<K_sw_flags, JObj(<< <<<<"D", "B", "G">>, JBool(TRUE)>> >>)>> >>)
      [] k = 3 -> JNum(5)
      [] k = 4 -> JObj(<< <<K_name, JStr(<<" ">>)>> >>)

\* hardware entries: not an object; flags and no software list; no usable
\* flag value and a software list that is not a list; flags and sw_list
HwSample(k, sw_list) ==
    CASE k = 1 -> JNum(7)
      [] k = 2 -> JObj(<< <<K_hw_flags,
                            JObj(<< <<<<"O", "P", "T">>, JBool(TRUE)>>,
                                    <<<<"B", "O", "A", "R", "D">>,
                                      JStr(<<"n", "u", "c", "l", "e", "o">>)>> >>)>> >>)
      [] k = 3 -> JObj(<< <<K_hw_flags,
                            JObj(<< <<<<"W">>, JStr(<<" ">>)>>,
                                    <<<<"N">>, JNull>>,
                                    <<<<"L">>, JList(<<>>)>>,
                                    <<<<"E">>, JStr(<<>>)>> >>)>>,
                          <<K_sw_configuration_list, JStr(<<"x">>)>> >>)
      [] k = 4 -> JObj(<< <<K_hw_flags,
                            JObj(<< <<<<"V">>, JNum(2)>>,
                                    <<<<"M", "C", "U">>, JStr(<<"S", "t", "_", "m">>)>> >>)>>,
                          <<K_sw_configuration_list, JList(sw_list)>> >>)

Shapes(n, kinds) == UNION {[1..m -> 1..kinds] : m \in 0..n}

Document(hw_shape, sw_shape) ==
    LET sw_list == [j \in 1..Len(sw_shape) |-> SwSample(sw_shape[j])]
    IN  JObj(<< <<K_hw_configuration_list,
                  JList([i \in 1..Len(hw_shape) |-> HwSample(hw_shape[i], sw_list)])>> >>)

InputFiles ==
    {[kind |-> k, data |-> JNull] : k \in {"missing", "unreadable", "malformed"}}
    \cup {[kind |-> "json", data |-> d] :
            d \in {JObj(<<>>),
                   JObj(<< <<K_hw_configuration_list, JObj(<<>>)>> >>),
                   JObj(<< <<K_name, JObj(<<>>)>> >>)}}
    \cup {[kind |-> "json", data |-> JList(<<>>)]}
    \cup {[kind |-> "json", data |-> Document(h, s)] :
            h \in Shapes(MaxHw, 4), s \in Shapes(MaxSw, 4)}

Init ==
    /\ fn_args = <<>>
    /\ fn_ret = [done |-> FALSE]
    /\ input \in InputFiles
    /\ dry_run \in BOOLEAN
    /\ pc = "start"
    /\ exit_code = -1
    /\ mkdir_calls = 0
    /\ hw_index = 0
    /\ sw_index = 0
    /\ hw_flags = <<>>
    /\ hw_base = <<>>
    /\ created_files = <<>>
    /\ writes = <<>>
    /\ printed = <<>>

Next == ReadInput \/ MakeOutdir \/ HwIteration \/ SwIteration \/ Summary

Spec == Init /\ [][Next]_vars

(***************************************************************************)
(* Properties of the flag-file generator (specification Spec).             *)
(***************************************************************************)
Finished == pc = "exit" /\ exit_code = 0

\* the process ended on one of the input failures
InputFailure ==
    \/ input.kind \in {"missing", "unreadable", "malformed"}
    \/ /\ input.kind = "json"
       /\ \/ ~IsDict(input.data)
          \/ ~IsList(DictGet(input.data, K_hw_configuration_list, JNull))

\* C1: every input failure (file missing or unreadable, invalid JSON, top-level
\* list missing or not a list, document not an object) ends the process with
\* exit code 2, before the output directory is created and with no file written.
C1_InputFailureExits2 ==
    (pc = "exit" /\ InputFailure) =>
        /\ exit_code = 2
        /\ mkdir_calls = 0
        /\ writes = <<>>

\* the emitted records (written or reported) of the hardware entry at index h
RecordsOf(log, h) == {i \in 1..Len(log) : log[i].hw = h}

C2_SwListOf(hw) == DictGet(hw, K_sw_configuration_list, JNull)

\* a non-empty software list that holds no object
C2_NoObjectInList(hw) ==
    /\ C2_SwListOf(hw).t = "list"
    /\ C2_SwListOf(hw).v # <<>>
    /\ \A j \in 1..Len(C2_SwListOf(hw).v) : C2_SwListOf(hw).v[j].t # "obj"

C2_CleanRun == Finished /\ ~dry_run /\ \A i \in 1..Len(writes) : writes[i].ok

\* C2 as stated: without dry run and write failure, every (object) entry of
\* hw_configuration_list yields at least one output file, whatever its
\* sw_configuration_list is.
C2_EveryHwEntryYieldsFile ==
    C2_CleanRun =>
        \A h \in 0..(Len(HwList) - 1) :
            HwList[h + 1].t = "obj" => RecordsOf(writes, h) # {}

\* C2 amended: without dry run and write failure, an object entry of
\* hw_configuration_list yields at least one output file exactly when its
\* sw_configuration_list is absent, not a list, empty, or holds at least one
\* object; entries that are not objects yield none; every file is recorded.
C2_HwEntryYieldsFileUnlessNoObject ==
    C2_CleanRun =>
        /\ \A h \in 0..(Len(HwList) - 1) :
               RecordsOf(writes, h) # {}
                   <=> (HwList[h + 1].t = "obj" /\ ~C2_NoObjectInList(HwList[h + 1]))
        /\ Len(created_files) = Len(writes)

\* reached: a clean run over an entry without software list, which yields a
\* file, and over an entry with a list of non-objects, which yields none
C2_Witness ==
    /\ C2_CleanRun
    /\ \E h \in 0..(Len(HwList) - 1) :
           /\ HwList[h + 1].t = "obj"
           /\ C2_SwListOf(HwList[h + 1]).t = "null"
           /\ RecordsOf(writes, h) # {}
    /\ \E h \in 0..(Len(HwList) - 1) :
           /\ HwList[h + 1].t = "obj"
           /\ C2_NoObjectInList(HwList[h + 1])
           /\ RecordsOf(writes, h) = {}

\* the flag map of the hardware entry at index h, and its filename base
\* computed as C10 (amended) states it
C10_FlagMap(h) == collect_dict_flags(FlagsRaw(HwList[h + 1], K_hw_flags))

C10_NonEmpty(v) == v # <<>>
C10_NonBlank(v) == \E i \in 1..Len(v) : ~IsSpace(v[i])

\* the sanitized values that count, those that are not blank or, with
\* blank_counts, those that are not empty
RECURSIVE C10_Tokens(_, _)
C10_Tokens(flags, blank_counts) ==
    IF flags = <<>> THEN <<>>
    ELSE (IF (IF blank_counts THEN C10_NonEmpty(Head(flags)[2])
              ELSE C10_NonBlank(Head(flags)[2]))
          THEN <<sanitize_value_for_filename(JStr(Head(flags)[2]))>>
          ELSE <<>>) \o C10_Tokens(Tail(flags), blank_counts)

C10_BaseWith(h, blank_counts) ==
    IF C10_Tokens(C10_FlagMap(h), blank_counts) = <<>>
    THEN <<"h", "w">> \o NatToStr(h)
    ELSE Join(C10_Tokens(C10_FlagMap(h), blank_counts), <<"_">>)

\* at the end of the run every record of a hardware entry without inner
\* loop is named base.txt, and inside the inner loop hw_base is the base
C10_BaseIs(blank_counts) ==
    /\ Finished =>
           /\ \A i \in 1..Len(writes) :
                  writes[i].sw = -1 =>
                      writes[i].path = C10_BaseWith(writes[i].hw, blank_counts) \o fixed_ext
           /\ \A i \in 1..Len(printed) :
                  printed[i].sw = -1 =>
                      printed[i].path = C10_BaseWith(printed[i].hw, blank_counts) \o fixed_ext
    /\ pc = "sw" => hw_base = C10_BaseWith(hw_index, blank_counts)

\* C10 as stated: the base is the "_"-join of the sanitized non-empty values
\* of the hardware flag map in sorted-key order, and hw{N} (N the position of
\* the entry in the list) when the map has no usable value.
C10_BaseFromNonEmptyValues == C10_BaseIs(TRUE)

\* C10 amended: the base is the "_"-join of the sanitized values of the
\* hardware flag map that are not blank (not empty once whitespace is
\* stripped), in sorted-key order, and hw{N} when no value is left, N being
\* the position of the entry in the list with the skipped entries counted;
\* {"BOARD":"nucleo","OPT":true} gives nucleo_on.
C10_BaseFromNonBlankValues ==
    /\ C10_BaseIs(FALSE)
    /\ Finished =>
           \A i \in 1..Len(writes) :
               HwList[writes[i].hw + 1] = HwSample(2, <<>>) =>
                   writes[i].path = <<"n", "u", "c", "l", "e", "o", "_", "o", "n">>
                                        \o fixed_ext

\* reached: a file named hw1.txt, for an entry behind a skipped one whose
\* flag map holds a blank value
C10_Witness ==
    /\ Finished
    /\ \E i \in 1..Len(writes) :
           /\ writes[i].path = <<"h", "w", "1">> \o fixed_ext
           /\ \E j \in 1..Len(C10_FlagMap(1)) : C10_FlagMap(1)[j][2] = <<" ">>
    /\ HwList[1].t # "obj"

C3_Entry(r) == SwList(HwList[r.hw + 1])[r.sw + 1]

\* a name that is present and not blank
C3_Named(sw) ==
    /\ DictGet(sw, K_name, JNull).t # "null"
    /\ C10_NonBlank(PyStr(DictGet(sw, K_name, JNull)))

C3_NamedPath(r) ==
    C10_BaseWith(r.hw, FALSE) \o <<"_">>
        \o sanitize_value_for_filename(DictGet(C3_Entry(r), K_name, JNull)) \o fixed_ext

C3_BarePath(r) == C10_BaseWith(r.hw, FALSE) \o fixed_ext

C3_IndexedPath(r) ==
    C10_BaseWith(r.hw, FALSE) \o <<"_", "s", "w", "-", "c", "o", "n", "f">>
        \o NatToStr(r.sw) \o fixed_ext

\* the entry of r is the first unnamed object of its list
C3_FirstUnnamed(r) ==
    /\ ~C3_Named(C3_Entry(r))
    /\ \A j \in 1..r.sw :
           LET before == SwList(HwList[r.hw + 1])[j]
           IN  before.t = "obj" => C3_Named(before)

C3_Emitted == {writes[i] : i \in 1..Len(writes)} \cup {printed[i] : i \in 1..Len(printed)}

RECURSIVE ExpectedSwSlots(_, _, _)
ExpectedSwSlots(h, sw_list, s) ==
    IF s >= Len(sw_list) THEN <<>>
    ELSE (IF IsDict(sw_list[s + 1]) THEN << <<h, s>> >> ELSE <<>>)
         \o ExpectedSwSlots(h, sw_list, s + 1)

RECURSIVE ExpectedSlots(_)
ExpectedSlots(h) ==
    IF h >= Len(HwList) THEN <<>>
    ELSE (IF ~IsDict(HwList[h + 1]) THEN <<>>
          ELSE IF HasSwList(HwList[h + 1]) THEN ExpectedSwSlots(h, SwList(HwList[h + 1]), 0)
          ELSE << <<h, -1>> >>)
         \o ExpectedSlots(h + 1)

\* the path and the flag lines of the artifact of one slot
ExpectedArtifact(slot) ==
    LET hw == HwList[slot[1] + 1]
        flags == C10_FlagMap(slot[1])
        base == hw_filename_base_from_hw_flags(flags, slot[1])
    IN  IF slot[2] = -1
        THEN [path |-> base \o fixed_ext, lines |-> flags_to_lines(flags)]
        ELSE [path |-> sw_filename(base, SwList(hw), slot[2]),
              lines |-> flags_to_lines(
                            merge_flags(flags,
                                        collect_dict_flags(
                                            FlagsRaw(SwList(hw)[slot[2] + 1], K_sw_flags))))]

\* a log holds exactly the artifacts of the document, in document order
AllArtifactsIn(log) ==
    /\ [i \in 1..Len(log) |-> <<log[i].hw, log[i].sw>>] = ExpectedSlots(0)
    /\ \A i \in 1..Len(log) :
           LET expected == ExpectedArtifact(<<log[i].hw, log[i].sw>>)
           IN  log[i].path = expected.path /\ log[i].lines = expected.lines

\* C6: a failed write does not abort: every artifact of the document is
\* attempted, in document order and with the path and lines it has without
\* failure, and created_files holds exactly the paths whose write succeeded.
C6_WriteFailureDoesNotAbort ==
    (Finished /\ ~dry_run) =>
        /\ AllArtifactsIn(writes)
        /\ created_files =
               LET done == SelectSeq(writes, LAMBDA w : w.ok)
               IN  [i \in 1..Len(done) |-> done[i].path]

\* reached: a failed write followed by a write of the same hardware entry and
\* by a write of a later hardware entry
C6_Witness ==
    /\ Finished
    /\ \E i, j, k \in 1..Len(writes) :
           /\ i < j /\ j < k
           /\ ~writes[i].ok
           /\ writes[j].hw = writes[i].hw
           /\ writes[k].hw > writes[i].hw
           /\ writes[j].ok /\ writes[k].ok

\* C8: a dry run reports, in order, exactly the (path, lines) pairs a normal
\* run without write failure writes for the same document, and writes nothing.
C8_DryRunReportsWhatIsWritten ==
    /\ (Finished /\ dry_run) =>
           /\ AllArtifactsIn(printed)
           /\ writes = <<>>
           /\ created_files = <<>>
    /\ (Finished /\ ~dry_run /\ \A i \in 1..Len(writes) : writes[i].ok) =>
           /\ AllArtifactsIn(writes)
           /\ printed = <<>>

\* reached: a dry run that reported a software entry whose flags override a
\* hardware flag, after an earlier report
C8_Witness ==
    /\ Finished /\ dry_run
    /\ \E i \in 2..Len(printed) :
           /\ printed[i].sw >= 0
           /\ printed[i].lines # flags_to_lines(C10_FlagMap(printed[i].hw))

\* the top-level list passed validation
ValidInput ==
    /\ input.kind = "json"
    /\ IsDict(input.data)
    /\ IsList(DictGet(input.data, K_hw_configuration_list, JNull))

\* C9: a failed creation of the output directory ends the process with exit
\* code 3 and no artifact written or printed; the creation is attempted once,
\* after the validation of the input and before the first artifact, in dry-run
\* mode as in normal mode.
C9_OutdirFailureExits3 ==
    /\ mkdir_calls <= 1
    /\ exit_code = 3 =>
           /\ pc = "exit" /\ mkdir_calls = 1
           /\ writes = <<>> /\ printed = <<>> /\ created_files = <<>>
    /\ mkdir_calls = 1 => ValidInput
    /\ (writes # <<>> \/ printed # <<>>) => (mkdir_calls = 1 /\ exit_code # 3)
    /\ (ValidInput /\ pc \in {"hw", "sw", "summary", "exit"}) => mkdir_calls = 1

\* reached: a dry run that ended on the failed creation of the directory
C9_Witness == pc = "exit" /\ exit_code = 3 /\ dry_run /\ Len(HwList) > 0

(***************************************************************************)
(* Specification of build_artifact_name: the arguments are drawn at Init,  *)
(* the call computes the printed name.                                     *)
(***************************************************************************)
CfgAlphabet == {"H", "w", "_", "."}
ProjectSamples == {<<>>, <<"P", ".", "1">>, <<"a", "_", "B">>}
TagSamples == {<<>>, <<"V", "1", ".", "2">>, <<"h", "w">>}

NoInput == [kind |-> "none", data |-> [t |-> "null", v |-> 0]]

\* the flag-file generator is not running
GeneratorIdle ==
    /\ input = NoInput
    /\ dry_run = FALSE
    /\ pc = "idle"
    /\ exit_code = -1
    /\ mkdir_calls = 0
    /\ hw_index = 0
    /\ sw_index = 0
    /\ hw_flags = <<>>
    /\ hw_base = <<>>
    /\ created_files = <<>>
    /\ writes = <<>>
    /\ printed = <<>>

generatorVars == <<input, dry_run, pc, exit_code, mkdir_calls, hw_index, sw_index,
                   hw_flags, hw_base, created_files, writes, printed>>

InitArtifactName ==
    /\ fn_args \in [project : ProjectSamples,
                    configuration : StringsUpTo(CfgAlphabet, MaxCfgLen),
                    tag : TagSamples]
    /\ fn_ret = [done |-> FALSE]
    /\ GeneratorIdle

\* main() of build_artifact_name.py: print(build_artifact_name(...))
ArtifactNameMain ==
    /\ ~fn_ret.done
    /\ fn_ret' = [done |-> TRUE,
                  val |-> build_artifact_name(fn_args.project,
                                              fn_args.configuration, fn_args.tag)]
    /\ UNCHANGED <<fn_args, generatorVars>>

NextArtifactName == ArtifactNameMain

SpecArtifactName == InitArtifactName /\ [][NextArtifactName]_vars

\* sanitized parts of a configuration, none for the empty configuration
C4_Parts(configuration) ==
    IF configuration = <<>> THEN <<>>
    ELSE LET raw == Split(configuration, "_")
         IN  [i \in 1..Len(raw) |-> sanitize(raw[i])]

C4_HwIndexes(parts) ==
    {i \in 1..Len(parts) : Len(parts[i]) >= 2 /\ parts[i][1] = "h" /\ parts[i][2] = "w"}

C4_Min(S) == CHOOSE m \in S : \A k \in S : m <= k

\* the parts with the tag inserted where the claim puts it
C4_WithTag(parts, tag_s) ==
    IF C4_HwIndexes(parts) = {} THEN <<tag_s>> \o parts
    ELSE LET m == C4_Min(C4_HwIndexes(parts))
         IN  [i \in 1..(Len(parts) + 1) |->
                 IF i <= m THEN parts[i]
                 ELSE IF i = m + 1 THEN tag_s
                 ELSE parts[i - 1]]

\* C4: build_artifact_name returns the sanitized project followed by the
\* sanitized parts of the configuration, with the sanitized tag right after
\* the first part starting with "hw" (or right after the project when no
\* part does), all joined with "_"; an empty configuration gives
\* project_tag; every input yields a string.
C4_ArtifactName ==
    fn_ret.done =>
        /\ fn_ret.val = Join(<<sanitize(fn_args.project)>>
                             \o C4_WithTag(C4_Parts(fn_args.configuration),
                                           sanitize(fn_args.tag)),
                             <<"_">>)
        /\ fn_args.configuration = <<>> =>
               fn_ret.val = sanitize(fn_args.project) \o <<"_">> \o sanitize(fn_args.tag)
        /\ fn_ret.val \in Seq(STRING)

\* reached: a configuration with two "hw" parts after a part that is not one
C4_Witness ==
    /\ fn_ret.done
    /\ Cardinality(C4_HwIndexes(C4_Parts(fn_args.configuration))) >= 2
    /\ fn_args.tag # <<>>

(***************************************************************************)
(* Specification of merge_flags: two JSON objects are drawn at Init, the   *)
(* call collects both flag maps and merges them as the inner loop does.    *)
(***************************************************************************)
MergeKeys == {<<"b">>, <<"a">>, <<"B">>}

\* hardware values: a string, a boolean, a list (dropped by the collection)
HwValueSample(k) ==
    CASE k = 1 -> JStr(<<"h">>) [] k = 2 -> JBool(TRUE) [] k = 3 -> JList(<<>>)

\* software values: a string, null, an object (dropped by the collection)
SwValueSample(k) ==
    CASE k = 1 -> JStr(<<"s">>) [] k = 2 -> JNull [] k = 3 -> JObj(<<>>)

\* the key lists of a JSON object: no key twice, any insertion order
KeyLists(keys, n) ==
    {ks \in UNION {[1..m -> keys] : m \in 0..n} :
        \A i, j \in 1..Len(ks) : i # j => ks[i] # ks[j]}

InitMerge ==
    /\ \E hk \in KeyLists(MergeKeys, MaxKeys), sk \in KeyLists(MergeKeys, MaxKeys) :
         \E hv \in [1..Len(hk) -> 1..3], sv \in [1..Len(sk) -> 1..3] :
            fn_args = [hw_flags_raw |->
                           JObj([i \in 1..Len(hk) |-> <<hk[i], HwValueSample(hv[i])>>]),
                       sw_flags_raw |->
                           JObj([i \in 1..Len(sk) |-> <<sk[i], SwValueSample(sv[i])>>])]
    /\ fn_ret = [done |-> FALSE]
    /\ GeneratorIdle

\* hw_flags = collect_dict_flags(...); sw_flags = collect_dict_flags(...);
\* merged = merge_flags(hw_flags, sw_flags)
CollectAndMerge ==
    /\ ~fn_ret.done
    /\ LET hw == collect_dict_flags(fn_args.hw_flags_raw)
           sw == collect_dict_flags(fn_args.sw_flags_raw)
       IN  fn_ret' = [done |-> TRUE, hw_flags |-> hw, sw_flags |-> sw,
                      merged |-> merge_flags(hw, sw)]
    /\ UNCHANGED <<fn_args, generatorVars>>

NextMerge == CollectAndMerge

SpecMerge == InitMerge /\ [][NextMerge]_vars

C5_Keys(od) == {od[i][1] : i \in 1..Len(od)}
C5_Value(od, k) == od[CHOOSE i \in 1..Len(od) : od[i][1] = k][2]

\* strictly increasing in code point order
C5_Sorted(keys) ==
    \A i \in 1..(Len(keys) - 1) :
        /\ keys[i] # keys[i + 1]
        /\ \E n \in 1..(Len(keys[i]) + 1) :
               /\ \A m \in 1..(n - 1) :
                      m <= Len(keys[i + 1]) /\ keys[i][m] = keys[i + 1][m]
               /\ \/ n = Len(keys[i]) + 1
                  \/ /\ n <= Len(keys[i + 1])
                     /\ Ord(keys[i][n]) < Ord(keys[i + 1][n])

\* C5: merge_flags(hw, sw) has exactly the union of the keys; a key of the
\* software map has the software value, a key of the hardware map alone keeps
\* the hardware value; the order is the hardware keys, sorted, then the
\* software-only keys, sorted.
C5_MergeOverlay ==
    fn_ret.done =>
        LET hw == fn_ret.hw_flags
            sw == fn_ret.sw_flags
            merged == fn_ret.merged
            sw_only == SelectSeq(KeysOf(sw), LAMBDA k : k \notin C5_Keys(hw))
        IN  /\ C5_Keys(merged) = C5_Keys(hw) \cup C5_Keys(sw)
            /\ Len(merged) = Cardinality(C5_Keys(merged))
            /\ \A k \in C5_Keys(sw) : C5_Value(merged, k) = C5_Value(sw, k)
            /\ \A k \in C5_Keys(hw) \ C5_Keys(sw) : C5_Value(merged, k) = C5_Value(hw, k)
            /\ KeysOf(merged) = KeysOf(hw) \o sw_only
            /\ C5_Sorted(KeysOf(hw))
            /\ C5_Sorted(sw_only)

\* reached: a merge of two maps that share a key with different values, each
\* with a key of its own, the software-only key sorting before a hardware key
C5_Witness ==
    /\ fn_ret.done
    /\ \E k \in C5_Keys(fn_ret.hw_flags) \cap C5_Keys(fn_ret.sw_flags) :
           C5_Value(fn_ret.hw_flags, k) # C5_Value(fn_ret.sw_flags, k)
    /\ C5_Keys(fn_ret.hw_flags) \ C5_Keys(fn_ret.sw_flags) # {}
    /\ \E k \in C5_Keys(fn_ret.sw_flags) \ C5_Keys(fn_ret.hw_flags) :
           \E h \in C5_Keys(fn_ret.hw_flags) : StrLess(k, h)

(***************************************************************************)
(* Specification of the rendering of a flag file: a JSON object is drawn   *)
(* at Init, the call collects its flag map and renders the file content.   *)
(***************************************************************************)
LineKeySample(k) ==
    CASE k = 1 -> <<"K">> [] k = 2 -> <<>> [] k = 3 -> <<"A", "=", "B">>
      [] k = 4 -> <<"L", "\n", "M">>

LineValueSample(k) ==
    CASE k = 1 -> JStr(<<"v">>) [] k = 2 -> JNull [] k = 3 -> JStr(<<>>)
      [] k = 4 -> JBool(FALSE) [] k = 5 -> JNum(15)
      [] k = 6 -> JStr(<<"a", "=", "b">>) [] k = 7 -> JStr(<<"x", "\n", "y">>)

InitLines ==
    /\ \E ks \in KeyLists(1..4, MaxFlags) :
         \E vs \in [1..Len(ks) -> 1..7] :
            fn_args = [flags_raw |->
                           JObj([i \in 1..Len(ks) |->
                                    <<LineKeySample(ks[i]), LineValueSample(vs[i])>>])]
    /\ fn_ret = [done |-> FALSE]
    /\ GeneratorIdle

\* lines = flags_to_lines(collect_dict_flags(...)); out_f.write(...)
RenderFile ==
    /\ ~fn_ret.done
    /\ LET flags == collect_dict_flags(fn_args.flags_raw)
       IN  fn_ret' = [done |-> TRUE, flags |-> flags,
                      content |-> FileContent(flags_to_lines(flags))]
    /\ UNCHANGED <<fn_args, generatorVars>>

NextLines == RenderFile

SpecLines == InitLines /\ [][NextLines]_vars

\* the lines of a file: the text before each line terminator
C7_FileLines(content) ==
    IF content = <<>> THEN <<>>
    ELSE IF content[Len(content)] = "\n"
    THEN Split(SubSeq(content, 1, Len(content) - 1), "\n")
    ELSE Split(content, "\n")

\* a line parsed back: "-D" removed, split at the first "="
C7_Parse(line) ==
    IF ~(Len(line) >= 2 /\ line[1] = "-" /\ line[2] = "D")
    THEN [ok |-> FALSE, key |-> <<>>, has_value |-> FALSE, value |-> <<>>]
    ELSE LET rest == SubSeq(line, 3, Len(line))
         IN  IF \A i \in 1..Len(rest) : rest[i] # "="
             THEN [ok |-> TRUE, key |-> rest, has_value |-> FALSE, value |-> <<>>]
             ELSE LET e == CHOOSE i \in 1..Len(rest) :
                               rest[i] = "=" /\ \A j \in 1..(i - 1) : rest[j] # "="
                  IN  [ok |-> TRUE, key |-> SubSeq(rest, 1, e - 1), has_value |-> TRUE,
                       value |-> SubSeq(rest, e + 1, Len(rest))]

\* the pair a flag is rendered from: the value is absent when it is empty
C7_Pair(flag) ==
    [ok |-> TRUE, key |-> flag[1], has_value |-> flag[2] # <<>>, value |-> flag[2]]

C7_RoundTrip(flags, content) ==
    /\ Len(C7_FileLines(content)) = Len(flags)
    /\ \A i \in 1..Len(flags) : C7_Parse(C7_FileLines(content)[i]) = C7_Pair(flags[i])

\* C7 as stated: for every flag map (any string keys, any primitive values)
\* each line of the file parses back to the pair it was rendered from, and the
\* file has as many lines as the map has keys.
C7_EveryLineParsesBack ==
    fn_ret.done => C7_RoundTrip(fn_ret.flags, fn_ret.content)

C7_Has(s, c) == \E i \in 1..Len(s) : s[i] = c

\* no key holds "=" or a line break, no value holds a line break
C7_Plain(flags) ==
    \A i \in 1..Len(flags) :
        /\ ~C7_Has(flags[i][1], "=")
        /\ ~C7_Has(flags[i][1], "\n")
        /\ ~C7_Has(flags[i][2], "\n")

\* C7 amended: for every flag map with at least one key, whose keys hold
\* neither "=" nor a line break and whose values hold no line break, each
\* line of the file parses back to the pair it was rendered from and the file
\* has as many lines as the map has keys; the file of an empty map is one
\* empty line.
C7_PlainLinesParseBack ==
    fn_ret.done =>
        /\ (fn_ret.flags # <<>> /\ C7_Plain(fn_ret.flags)) =>
               C7_RoundTrip(fn_ret.flags, fn_ret.content)
        /\ fn_ret.flags = <<>> => fn_ret.content = <<"\n">>

\* reached: a file of two lines, one without value and one whose value holds "="
C7_Witness ==
    /\ fn_ret.done
    /\ Len(fn_ret.flags) = 2
    /\ C7_Plain(fn_ret.flags)
    /\ \E i \in 1..2 : fn_ret.flags[i][2] = <<>>
    /\ \E i \in 1..2 : C7_Has(fn_ret.flags[i][2], "=")

====
